---- MODULE Spec2Model ----
(***************************************************************************)
(* BoxdWrapped API (src/api/src/index.ts): the diary page parser, the      *)
(* paginated diary fetch loop, and the date statistics (top months, top    *)
(* days, active days, longest streak).                                     *)
(*                                                                         *)
(* Strings are sequences of one-character strings, so that slice, trim,    *)
(* startsWith, substring search, the lexicographic sort and Date.parse are *)
(* computed on the characters as the code computes them.                   *)
(***************************************************************************)
EXTENDS Integers, Sequences, FiniteSets, TLC

VARIABLES
    \* ---- parseDiaryEntries (one call, row by row)
    html,          \* the document handed to parseDiaryEntries
    rowIdx,        \* position of rowSet.each
    parsed,        \* `entries` of parseDiaryEntries
    primaryOut,    \* history: `entries` as the row loop left it
    fallbackRan,   \* history: the a[href*="/film/"] scan was executed
    ppc,           \* control point of parseDiaryEntries
    \* ---- computeLongestStreak and computeStats (one call each)
    entriesIn,     \* the `entries` argument
    days,          \* the deduplicated, sorted dates
    dayIdx,        \* position of `for (const d of days)`
    streak,        \* bestLen, bestStart, bestEnd, curLen, curStart, prevTime
    streakOut,     \* the value computeLongestStreak returns
    kpc,           \* control point of computeLongestStreak
    topMonths, activeDays, topDays, longestStreak,   \* the fields computeStats returns
    spc,           \* control point of computeStats
    \* ---- one GET /recap request: the handler and its fetchDiaryForYear call
    sc,            \* what the site answers to this request
    pc,            \* control point of the handler and of fetchDiaryForYear
    page,          \* `page` of the for loop
    pagesFetched,
    entries,       \* `entries` of fetchDiaryForYear
    stoppedBecause,
    debug,         \* lastPageUrl and filmLinksCount
    fetchLog,      \* history: the URLs handed to fetchHtml, in order
    diary,         \* the value fetchDiaryForYear returns
    stats,         \* the value computeStats returns to the handler
    response,      \* the status of the handler's Response
    \* ---- two GET /recap requests in one isolate, each in its fetchDiaryForYear call
    reqs           \* per request: what the site answers it, and the locals of its call

parseVars == <<html, rowIdx, parsed, primaryOut, fallbackRan, ppc>>

streakVars == <<days, dayIdx, streak, streakOut, kpc>>

statsVars == <<topMonths, activeDays, topDays, longestStreak, spc>>

recapVars ==
    <<sc, pc, page, pagesFetched, entries, stoppedBecause, debug, fetchLog, diary, stats,
      response>>

vars == <<parseVars, entriesIn, streakVars, statsVars, recapVars, reqs>>

-----------------------------------------------------------------------------
(* JavaScript values *)

\* null / undefined: a one-element sequence no string of characters equals.
null == <<"null">>

\* Characters of the model in ascending UTF-16 code unit order.
Alphabet ==
    <<" ", "-", ".", "/", "0", "1", "2", "3", "4", "5", "6", "7", "8", "9", ":",
      "A", "B", "C", "T", "Z",
      "a", "b", "c", "d", "e", "f", "h", "i", "l", "m", "n", "o", "p", "r", "s",
      "t", "u", "x", "y">>

CharCode(c) == CHOOSE i \in 1..Len(Alphabet) : Alphabet[i] = c

Digits == <<"0", "1", "2", "3", "4", "5", "6", "7", "8", "9">>

IsDigit(c) == \E i \in 1..10 : Digits[i] = c

DigitVal(c) == (CHOOSE i \in 1..10 : Digits[i] = c) - 1

Min(a, b) == IF a < b THEN a ELSE b

\* String.prototype.slice(from, to) with 0 <= from <= to.
Slice(s, from, to) == SubSeq(s, from + 1, Min(to, Len(s)))

\* String.prototype.startsWith
StartsWith(s, p) == Len(s) >= Len(p) /\ SubSeq(s, 1, Len(p)) = p

\* First index (1-based) at which p occurs in s, 0 when it does not.
IndexOf(s, p) ==
    LET hits == {i \in 1..(Len(s) - Len(p) + 1) : SubSeq(s, i, i + Len(p) - 1) = p}
    IN  IF hits = {} THEN 0 ELSE CHOOSE i \in hits : \A j \in hits : i <= j

Includes(s, p) == IndexOf(s, p) > 0

RECURSIVE TrimStart(_)
TrimStart(s) == IF s # <<>> /\ Head(s) = " " THEN TrimStart(Tail(s)) ELSE s

RECURSIVE TrimEnd(_)
TrimEnd(s) ==
    IF s # <<>> /\ s[Len(s)] = " " THEN TrimEnd(SubSeq(s, 1, Len(s) - 1)) ELSE s

\* String.prototype.trim
Trim(s) == TrimEnd(TrimStart(s))

\* `!v` for a value that is a string, null or undefined.
Falsy(v) == v = null \/ v = <<>>

textOrNull(value) ==
    LET v == Trim(IF value = null THEN <<>> ELSE value)
    IN  IF Len(v) > 0 THEN v ELSE null

-----------------------------------------------------------------------------
(* parseDiaryEntries *)

ORIGIN == <<"h","t","t","p","s",":","/","/","l","e","t","t","e","r","b","o","x","d",".","c","o","m">>

HTTP == <<"h","t","t","p">>

FILM_SEGMENT == <<"/","f","i","l","m","/">>

DAY_PREFIX == <<"/","d","i","a","r","y","/","f","i","l","m","s","/","f","o","r","/">>

\* Whether /\/diary\/films\/for\/(\d{4})\/(\d{2})\/(\d{2})\// matches s at index i.
DayHrefMatchesAt(s, i) ==
    LET n == Len(DAY_PREFIX)
        b == i + n
    IN  /\ i + n + 10 <= Len(s)
        /\ SubSeq(s, i, i + n - 1) = DAY_PREFIX
        /\ \A k \in {b, b + 1, b + 2, b + 3, b + 5, b + 6, b + 8, b + 9} : IsDigit(s[k])
        /\ s[b + 4] = "/" /\ s[b + 7] = "/" /\ s[b + 10] = "/"

\* `${m[1]}-${m[2]}-${m[3]}` of the leftmost match, null without a match.
DayHrefDate(dayHref) ==
    IF dayHref = null THEN null
    ELSE LET hits == {i \in 1..Len(dayHref) : DayHrefMatchesAt(dayHref, i)}
         IN  IF hits = {} THEN null
             ELSE LET i == CHOOSE h \in hits : \A j \in hits : h <= j
                      b == i + Len(DAY_PREFIX)
                  IN  SubSeq(dayHref, b, b + 3) \o <<"-">> \o SubSeq(dayHref, b + 5, b + 6)
                        \o <<"-">> \o SubSeq(dayHref, b + 8, b + 9)

\* a || b on values that are strings or null.
OrElse(a, b) == IF Falsy(a) THEN b ELSE a

\* The date of a row: data-viewing-date, else time[datetime], else the day link.
RowDate(row) ==
    LET date == OrElse(textOrNull(row.viewingDate), textOrNull(row.timeDatetime))
    IN  IF Falsy(date) THEN DayHrefDate(textOrNull(row.dayHref)) ELSE date

\* The `href.startsWith("http")` test of an absolute URL.
LooksAbsolute(href) == StartsWith(href, HTTP)

FilmUrl(href) == IF LooksAbsolute(href) THEN href ELSE ORIGIN \o href

DateField(date) == IF Falsy(date) THEN null ELSE Slice(date, 0, 10)

\* One pass of rowSet.each: the entries after the row.
RowStep(es, row) ==
    LET href == textOrNull(row.nameHref)
        title == textOrNull(row.nameText)
    IN  IF Falsy(href) THEN es
        ELSE Append(es, [date |-> DateField(RowDate(row)), title |-> title,
                         filmUrl |-> FilmUrl(href)])

\* $("tr.diary-entry-row"), and $("tr") when there is none.
RowSet(doc) ==
    LET rows == SelectSeq(doc.trs, LAMBDA r : r.diary)
    IN  IF Len(rows) > 0 THEN rows ELSE doc.trs

\* $('a[href*="/film/"]') in document order: each with its href, its text and the
\* date attributes of its closest tr, li or div.
RowAnchor(row) ==
    [href |-> row.nameHref, text |-> row.nameText,
     parentDate |-> row.viewingDate, parentTime |-> row.timeDatetime]

FilmAnchors(doc) ==
    SelectSeq([i \in 1..Len(doc.trs) |-> RowAnchor(doc.trs[i])] \o doc.links,
              LAMBDA a : a.href # null /\ Includes(a.href, FILM_SEGMENT))

AnchorStep(es, a) ==
    LET href == textOrNull(a.href)
        title == textOrNull(a.text)
        date == OrElse(textOrNull(a.parentDate), textOrNull(a.parentTime))
    IN  IF Falsy(href) THEN es
        ELSE Append(es, [date |-> DateField(date), title |-> title,
                         filmUrl |-> FilmUrl(href)])

RECURSIVE RowsFold(_, _)
RowsFold(es, rows) ==
    IF rows = <<>> THEN es ELSE RowsFold(RowStep(es, Head(rows)), Tail(rows))

RECURSIVE AnchorsFold(_, _)
AnchorsFold(es, anchors) ==
    IF anchors = <<>> THEN es
    ELSE AnchorsFold(AnchorStep(es, Head(anchors)), Tail(anchors))

\* A fallback that also runs when the rows gave a single entry.
FallbackNeededBelowTwo(es) == Len(es) <= 1

\* `entries.length === 0` after the row loop.
FallbackNeeded(es) == Len(es) = 0

FallbackScan(es, doc) == AnchorsFold(es, FilmAnchors(doc))

parseDiaryEntries(doc) ==
    LET es == RowsFold(<<>>, RowSet(doc))
    IN  IF FallbackNeeded(es) THEN FallbackScan(es, doc) ELSE es

-----------------------------------------------------------------------------
(* Dates: Date.parse and the string order of Array.prototype.sort *)

\* A time value: a whole number of days since 1970-01-01T00:00:00Z (every string
\* parsed here carries the time T00:00:00Z, so timestamps are multiples of
\* 1000 * 60 * 60 * 24 ms and are kept in days), or NaN.
NaN == [nan |-> TRUE]

\* prevTime = null
NoTime == [none |-> TRUE]

TimeOf(n) == [day |-> n]

Num2(s, i) == DigitVal(s[i]) * 10 + DigitVal(s[i + 1])

Num4(s, i) == Num2(s, i) * 100 + Num2(s, i + 2)

IsLeap(y) == (y % 4 = 0 /\ y % 100 # 0) \/ y % 400 = 0

DaysInMonth(y, m) ==
    IF m = 2 THEN (IF IsLeap(y) THEN 29 ELSE 28)
    ELSE IF m \in {4, 6, 9, 11} THEN 30 ELSE 31

\* Days from 1970-01-01 to the civil date y-m-d.
DaysFromCivil(y, m, d) ==
    LET yy == IF m <= 2 THEN y - 1 ELSE y
        era == yy \div 400
        yoe == yy - era * 400
        mp == (m + 9) % 12
        doy == ((153 * mp + 2) \div 5) + d - 1
        doe == yoe * 365 + (yoe \div 4) - (yoe \div 100) + doy
    IN  era * 146097 + doe - 719468

\* Whether d has the form YYYY-MM-DD with a month and a day of the calendar.
IsIsoDate(d) ==
    /\ Len(d) = 10
    /\ \A k \in {1, 2, 3, 4, 6, 7, 9, 10} : IsDigit(d[k])
    /\ d[5] = "-" /\ d[8] = "-"
    /\ Num2(d, 6) \in 1..12
    /\ Num2(d, 9) \in 1..DaysInMonth(Num4(d, 1), Num2(d, 6))

\* Date.parse(`${d}T00:00:00Z`)
DateParse(d) ==
    IF IsIsoDate(d) THEN TimeOf(DaysFromCivil(Num4(d, 1), Num2(d, 6), Num2(d, 9)))
    ELSE NaN

\* a < b in UTF-16 code unit order, the default order of Array.prototype.sort:
\* decided by the first position at which they differ, else by the length.
StrLess(a, b) ==
    LET diff == {i \in 1..Min(Len(a), Len(b)) : a[i] # b[i]}
    IN  IF diff = {} THEN Len(a) < Len(b)
        ELSE LET i == CHOOSE k \in diff : \A m \in diff : k <= m
             IN  CharCode(a[i]) < CharCode(b[i])

\* xs, sorted, with x put after the elements that are not greater than it.
InsertSorted(xs, x) ==
    LET k == Cardinality({i \in 1..Len(xs) : ~StrLess(x, xs[i])})
    IN  SubSeq(xs, 1, k) \o <<x>> \o SubSeq(xs, k + 1, Len(xs))

RECURSIVE SortStrings(_)
SortStrings(xs) ==
    IF xs = <<>> THEN <<>>
    ELSE InsertSorted(SortStrings(SubSeq(xs, 1, Len(xs) - 1)), xs[Len(xs)])

\* The positions of xs that hold a value for the first time.
FirstOccurrences(xs) ==
    SelectSeq([i \in 1..Len(xs) |-> i], LAMBDA i : \A j \in 1..(i - 1) : xs[j] # xs[i])

\* Array.from(new Set(xs)): the first occurrence of each value, in insertion order.
SetOf(xs) ==
    LET firsts == FirstOccurrences(xs)
    IN  [k \in 1..Len(firsts) |-> xs[firsts[k]]]

DatesOf(es) == [i \in 1..Len(es) |-> es[i].date]

-----------------------------------------------------------------------------
(* computeLongestStreak *)

\* const days = Array.from(new Set(entries.map((e) => e.date))).sort()
StreakDays(es) == SortStrings(SetOf(DatesOf(es)))

\* The locals before the loop.
StreakStart ==
    [bestLen |-> 0, bestStart |-> null, bestEnd |-> null,
     curLen |-> 0, curStart |-> null, prevTime |-> NoTime]

\* diffDays === 1 for t and prevTime, neither of them null
IsNextDay(t, prev) == t # NaN /\ prev # NaN /\ t.day - prev.day = 1

\* A best-update that also replaces a best run of the same length.
ImprovesOrTies(cur, best) == cur >= best

\* curLen > bestLen
Improves(cur, best) == cur > best

\* A loop body whose reset branch leaves curStart as it was.
StreakStepKeepStart(st, d) ==
    LET t == DateParse(d)
        extend == st.prevTime # NoTime /\ IsNextDay(t, st.prevTime)
        curLen == IF extend THEN st.curLen + 1 ELSE 1
        curStart == IF st.curStart = null THEN d ELSE st.curStart
        better == Improves(curLen, st.bestLen)
    IN  [bestLen |-> IF better THEN curLen ELSE st.bestLen,
         bestStart |-> IF better THEN curStart ELSE st.bestStart,
         bestEnd |-> IF better THEN d ELSE st.bestEnd,
         curLen |-> curLen, curStart |-> curStart, prevTime |-> t]

\* One iteration of `for (const d of days)`.
StreakStep(st, d) ==
    LET t == DateParse(d)
        extend == st.prevTime # NoTime /\ IsNextDay(t, st.prevTime)
        curLen == IF extend THEN st.curLen + 1 ELSE 1
        curStart == IF extend THEN st.curStart ELSE d
        better == Improves(curLen, st.bestLen)
    IN  [bestLen |-> IF better THEN curLen ELSE st.bestLen,
         bestStart |-> IF better THEN curStart ELSE st.bestStart,
         bestEnd |-> IF better THEN d ELSE st.bestEnd,
         curLen |-> curLen, curStart |-> curStart, prevTime |-> t]

RECURSIVE StreakFold(_, _)
StreakFold(st, ds) ==
    IF ds = <<>> THEN st ELSE StreakFold(StreakStep(st, Head(ds)), Tail(ds))

\* No value returned yet.
NoResult == [none |-> TRUE]

StreakResult(st) == [length |-> st.bestLen, start |-> st.bestStart, end |-> st.bestEnd]

computeLongestStreak(es) == StreakResult(StreakFold(StreakStart, StreakDays(es)))

-----------------------------------------------------------------------------
(* computeStats *)

\* .slice(0, 5) of the sorted month and day counts
TOP_N == 5

\* The object that `for (...) obj[key] = (obj[key] ?? 0) + 1` builds: its keys in
\* insertion order (date and month keys are no array indices), each with the
\* number of iterations that incremented it. A sequence of key/count pairs.
CountKeys(keys) ==
    LET firsts == FirstOccurrences(keys)
    IN  [k \in 1..Len(firsts) |->
            [key |-> keys[firsts[k]],
             count |-> Cardinality({i \in 1..Len(keys) : keys[i] = keys[firsts[k]]})]]

\* A comparator that sorts ascending by count.
GoesBeforeAscending(b, a) == a.count - b.count > 0

\* (a, b) => b[1] - a[1] is positive: b goes before a
GoesBefore(b, a) == b.count - a.count > 0

\* Array.prototype.sort is stable: x, the last of the elements so far, goes before
\* the first element it must precede.
InsertByCount(xs, x) ==
    LET before == {i \in 1..Len(xs) : GoesBefore(x, xs[i])}
        k == IF before = {} THEN Len(xs) + 1
             ELSE CHOOSE i \in before : \A j \in before : i <= j
    IN  SubSeq(xs, 1, k - 1) \o <<x>> \o SubSeq(xs, k, Len(xs))

RECURSIVE SortByCount(_)
SortByCount(xs) ==
    IF xs = <<>> THEN <<>>
    ELSE InsertByCount(SortByCount(SubSeq(xs, 1, Len(xs) - 1)), xs[Len(xs)])

\* .slice(0, 5)
Top(xs) == Slice(xs, 0, TOP_N)

MonthOf(date) == Slice(date, 0, 7)

\* .map(([month, count]) => ({ month, count }))
TopMonths(es) ==
    LET top == Top(SortByCount(CountKeys([i \in 1..Len(es) |-> MonthOf(es[i].date)])))
    IN  [i \in 1..Len(top) |-> [month |-> top[i].key, count |-> top[i].count]]

\* A count of the entries instead of the distinct dates.
ActiveDaysPerEntry(es) == Len(DatesOf(es))

\* A count of the months instead of the days.
ActiveMonths(es) == Len(SetOf([i \in 1..Len(es) |-> MonthOf(es[i].date)]))

ActiveDays(es) == Len(SetOf(DatesOf(es)))

\* .map(([date, count]) => ({ date, count }))
TopDays(es) ==
    LET top == Top(SortByCount(CountKeys(DatesOf(es))))
    IN  [i \in 1..Len(top) |-> [date |-> top[i].key, count |-> top[i].count]]

computeStats(es) ==
    [activeDays |-> ActiveDays(es), topMonths |-> TopMonths(es),
     topDays |-> TopDays(es), longestStreak |-> computeLongestStreak(es)]

-----------------------------------------------------------------------------
(* Documents: the rows and links a page may hold *)

Row(diaryRow, viewingDate, timeDatetime, dayHref, nameHref, nameText) ==
    [diary |-> diaryRow, viewingDate |-> viewingDate, timeDatetime |-> timeDatetime,
     dayHref |-> dayHref, nameHref |-> nameHref, nameText |-> nameText]

Link(href, text, parentDate, parentTime) ==
    [href |-> href, text |-> text, parentDate |-> parentDate, parentTime |-> parentTime]

HrefA == <<"/","u","/","f","i","l","m","/","a","/">>
HrefB == <<"/","u","/","f","i","l","m","/","b","/">>
HrefAbs == <<"h","t","t","p","s",":","/","/","l","e","t","t","e","r","b","o","x","d",".","c","o","m","/","f","i","l","m","/","c","/">>
HrefHttpx == <<"h","t","t","p","x","/","f","i","l","m","/","d","/">>
HrefList == <<"/","u","/","l","i","s","t","/","x","/">>
DayLink == <<"/","u","/","d","i","a","r","y","/","f","i","l","m","s","/","f","o","r","/","2","0","2","5","/","0","3","/","0","3","/">>
DateTimeAttr == <<"2","0","2","5","-","0","3","-","0","4","T","2","0",":","1","5",":","0","0","Z">>
DateAttr == <<"2","0","2","5","-","0","1","-","0","1">>
DatePadded == <<" ","2","0","2","5","-","0","1","-","0","2"," ">>
Blank == <<" ", " ">>
\* A month, which the datetime attribute of a time element may hold.
DateMonthOnly == <<"2","0","2","5","-","0","3">>

RowDomain ==
    { Row(TRUE, DateAttr, null, null, HrefA, <<"A">>),
      Row(TRUE, null, DateTimeAttr, null, HrefAbs, <<"C">>),
      Row(TRUE, Blank, null, DayLink, HrefB, <<"B", " ">>),
      Row(TRUE, null, null, HrefList, HrefB, <<>>),
      Row(TRUE, DatePadded, null, null, null, <<>>),
      Row(TRUE, DateAttr, null, null, Blank, <<"A">>),
      Row(FALSE, DateAttr, null, null, HrefA, <<"A">>),
      Row(FALSE, null, null, null, null, <<>>),
      Row(TRUE, DateAttr, null, null, HrefHttpx, <<"B">>) }

LinkDomain ==
    { Link(HrefB, <<"B">>, DatePadded, null),
      Link(HrefAbs, <<>>, null, DateTimeAttr),
      Link(HrefList, <<"A">>, DateAttr, null) }

MaxRows == 2
MaxLinks == 1

-----------------------------------------------------------------------------
(* Inputs of computeLongestStreak and computeStats *)

Pad2(n) == <<Digits[(n \div 10) + 1], Digits[(n % 10) + 1]>>

\* The string YYYY-MM-DD of a date.
DateStr(y, m, d) == Pad2(y \div 100) \o Pad2(y % 100) \o <<"-">> \o Pad2(m) \o <<"-">> \o Pad2(d)

\* Dates around the end of February of a leap and of a common year and around the
\* new year, and a string that is no date of the calendar.
StreakDates ==
    { DateStr(2024, 2, 28), DateStr(2024, 2, 29), DateStr(2024, 3, 1),
      DateStr(2024, 12, 31), DateStr(2025, 1, 1),
      DateStr(2025, 2, 28), DateStr(2025, 3, 1),
      DateStr(2025, 13, 1) }

MaxDates == 4

\* Seven days in six months.
StatsDates ==
    << DateStr(2025, 1, 1), DateStr(2025, 1, 2), DateStr(2025, 2, 10),
       DateStr(2025, 3, 5), DateStr(2025, 4, 1), DateStr(2025, 5, 20),
       DateStr(2025, 6, 15) >>

\* The most entries on one day.
MaxCount == 2

DiaryEntry(date) == [date |-> date, title |-> null, filmUrl |-> ORIGIN \o HrefA]

RECURSIVE Repeat(_, _)
Repeat(x, n) == IF n = 0 THEN <<>> ELSE <<x>> \o Repeat(x, n - 1)

\* The days in the order `order`, each one cnt[day] times in a row.
RECURSIVE Blocks(_, _)
Blocks(cnt, order) ==
    IF order = <<>> THEN <<>>
    ELSE Repeat(DiaryEntry(StatsDates[Head(order)]), cnt[Head(order)])
            \o Blocks(cnt, Tail(order))

\* Pass p holds, in the order `order`, the days with at least p entries.
RECURSIVE Passes(_, _, _)
Passes(cnt, order, p) ==
    IF p > MaxCount THEN <<>>
    ELSE Blocks([i \in DOMAIN cnt |-> IF cnt[i] >= p THEN 1 ELSE 0], order)
            \o Passes(cnt, order, p + 1)

Ascending == [i \in 1..Len(StatsDates) |-> i]

Shuffled == <<4, 1, 6, 2, 7, 3, 5>>

\* The entries of a diary with cnt[day] entries on each day, in one of three orders.
StatsInput(cnt, layout) ==
    CASE layout = 1 -> Blocks(cnt, Ascending)
      [] layout = 2 -> Blocks(cnt, Shuffled)
      [] layout = 3 -> Passes(cnt, Shuffled, 1)

-----------------------------------------------------------------------------
(* fetchDiaryForYear: the pages of a diary and the loop's decisions *)

MAX_PAGES == 30

\* Pages of a diary: two dated rows; a dated and an undated row; an undated row;
\* no row with a film link but a dated link elsewhere; nothing to extract.
PageFull ==
    [trs |-> << Row(TRUE, DateAttr, null, null, HrefA, <<"A">>),
                Row(TRUE, null, DateTimeAttr, null, HrefAbs, <<"C">>) >>,
     links |-> <<>>]

PageMixed ==
    [trs |-> << Row(TRUE, null, null, HrefList, HrefB, <<>>),
                Row(TRUE, Blank, null, DayLink, HrefB, <<"B", " ">>) >>,
     links |-> <<>>]

PageUndated ==
    [trs |-> << Row(TRUE, null, null, HrefList, HrefB, <<>>) >>, links |-> <<>>]

PageLinksOnly ==
    [trs |-> << Row(TRUE, DatePadded, null, null, null, <<>>) >>,
     links |-> << Link(HrefB, <<"B">>, DatePadded, null) >>]

PageNothing ==
    [trs |-> << Row(TRUE, DateAttr, null, null, Blank, <<"A">>) >>,
     links |-> << Link(HrefList, <<"A">>, DateAttr, null) >>]

PageMonthOnly ==
    [trs |-> << Row(TRUE, null, DateMonthOnly, null, HrefA, <<"A">>) >>, links |-> <<>>]

\* The odd and the even pages of a diary.
Patterns ==
    << <<PageFull, PageMixed>>, <<PageUndated, PageUndated>>, <<PageLinksOnly, PageFull>>,
       <<PageMixed, PageUndated>>, <<PageUndated, PageLinksOnly>>,
       <<PageFull, PageMonthOnly>> >>

\* The bodies the site serves.
Pages ==
    {Patterns[p][k] : p \in 1..Len(Patterns), k \in 1..2} \cup {PageNothing}

\* parseDiaryEntries(html) of each body the site serves.
ParsedPages == [h \in Pages |-> parseDiaryEntries(h)]

\* const pageEntries = parseDiaryEntries(html)
PageEntries(resp) == ParsedPages[resp.html]

\* An ok that takes every status from 200 upwards.
OkFromTwoHundred(status) == status >= 200

\* Response.ok: a status from 200 to 299
Ok(status) == status >= 200 /\ status <= 299

\* What fetchHtml(pageUrl) resolves to for page n: up to page sc.stopAt the diary's
\* pages; at page sc.stopAt an error page (whose body holds diary rows), a page
\* with nothing to extract, or a transport failure; after it, pages again.
\* A transport that never fails.
NeverThrows(s, n) == FALSE

PageThrows(s, n) == n = s.stopAt /\ s.stopKind = "throw"

PageResponse(s, n) ==
    LET body == Patterns[s.pattern][2 - (n % 2)]
    IN  IF n = s.stopAt /\ s.stopKind = "status"
        THEN [status |-> s.stopStatus, ok |-> Ok(s.stopStatus), html |-> body]
        ELSE IF n = s.stopAt /\ s.stopKind = "nothing"
        THEN [status |-> 200, ok |-> Ok(200), html |-> PageNothing]
        ELSE [status |-> 200, ok |-> Ok(200), html |-> body]

\* page === 1 ? diaryBaseUrl : `${diaryBaseUrl}page/${page}/`
PageUrl(n) == IF n = 1 THEN <<"diaryBaseUrl">> ELSE <<"diaryBaseUrl", "page", n>>

ProfileUrl == <<"profileUrl">>

\* A loop that leaves one page short of the ceiling.
LoopContinuesBelow(n) == n < MAX_PAGES

\* A loop that allows one page beyond the ceiling.
LoopContinuesOneMore(n) == n <= MAX_PAGES + 1

\* page <= MAX_PAGES
LoopContinues(n) == n <= MAX_PAGES

\* A status test that lets every response but a 404 through.
StopsOnNotFoundOnly(resp) == resp.status = 404

\* A loop that takes every response for a page of the diary.
StopsNever(resp) == FALSE

\* status === 404, or !ok: the loop breaks before the page is parsed
StopsOnStatus(resp) == resp.status = 404 \/ ~resp.ok

StopReasonOfStatus(resp) ==
    IF resp.status = 404 THEN <<"diary_not_found_or_private">>
    ELSE <<"diary_http_", resp.status>>

\* A loop that goes on after a page without entries.
NeverEmpty(pageEntries) == FALSE

\* pageEntries.length === 0
IsEmptyPage(pageEntries) == Len(pageEntries) = 0

\* An accumulation that keeps every raw entry.
AccumulateAll(es, e) ==
    Append(es, [date |-> IF Falsy(e.date) THEN null ELSE Slice(e.date, 0, 10),
                title |-> e.title, filmUrl |-> e.filmUrl])

\* An accumulation that puts the new entry in front.
AccumulatePrepend(es, e) ==
    LET date == IF Falsy(e.date) THEN null ELSE Slice(e.date, 0, 10)
    IN  IF Falsy(date) \/ Falsy(e.filmUrl) THEN es
        ELSE <<[date |-> date, title |-> e.title, filmUrl |-> e.filmUrl]>> \o es

\* The body of `for (const e of pageEntries)`.
AccumulateStep(es, e) ==
    LET date == IF Falsy(e.date) THEN null ELSE Slice(e.date, 0, 10)
    IN  IF Falsy(date) \/ Falsy(e.filmUrl) THEN es
        ELSE Append(es, [date |-> date, title |-> e.title, filmUrl |-> e.filmUrl])

RECURSIVE Accumulate(_, _)
Accumulate(es, pageEntries) ==
    IF pageEntries = <<>> THEN es
    ELSE Accumulate(AccumulateStep(es, Head(pageEntries)), Tail(pageEntries))

\* An override that replaces every stop reason when nothing was collected.
FinalReasonWheneverEmpty(es, reason) ==
    IF Len(es) = 0 THEN <<"no_entries_collected">> ELSE reason

\* if (entries.length === 0 && stoppedBecause === "max_pages_reached")
FinalReason(es, reason) ==
    IF Len(es) = 0 /\ reason = <<"max_pages_reached">> THEN <<"no_entries_collected">>
    ELSE reason

\* The locals of fetchDiaryForYear as it starts, and of a request that never calls it.
RecapLocalsInit ==
    /\ page = 1
    /\ pagesFetched = 0
    /\ entries = <<>>
    /\ stoppedBecause = <<"max_pages_reached">>
    /\ debug = [lastPageUrl |-> PageUrl(1), filmLinksCount |-> 0]
    /\ fetchLog = <<>>
    /\ diary = NoResult
    /\ stats = NoResult
    /\ response = 0

IdleScenario ==
    [user |-> FALSE, profileThrows |-> FALSE, profileStatus |-> 200,
     stopAt |-> 1, stopKind |-> "nothing", stopStatus |-> 200, pattern |-> 1]

RecapIdle == sc = IdleScenario /\ pc = "idle" /\ RecapLocalsInit

\* No second request: the specification at hand has one call only.
NoRequests == reqs = <<>>

-----------------------------------------------------------------------------
(* Specification of one parseDiaryEntries call *)

\* A function that is not running in the specification at hand.
ParseIdle ==
    /\ html = [trs |-> <<>>, links |-> <<>>]
    /\ rowIdx = 1
    /\ parsed = <<>>
    /\ primaryOut = <<>>
    /\ fallbackRan = FALSE
    /\ ppc = "idle"

StreakIdle ==
    /\ days = <<>>
    /\ dayIdx = 1
    /\ streak = StreakStart
    /\ streakOut = NoResult
    /\ kpc = "idle"

StatsIdle ==
    /\ topMonths = <<>>
    /\ activeDays = 0
    /\ topDays = <<>>
    /\ longestStreak = NoResult
    /\ spc = "idle"

ParseInit ==
    /\ \E nr \in 0..MaxRows, nl \in 0..MaxLinks :
          \E t \in [1..nr -> RowDomain], l \in [1..nl -> LinkDomain] :
             html = [trs |-> t, links |-> l]
    /\ rowIdx = 1
    /\ parsed = <<>>
    /\ primaryOut = <<>>
    /\ fallbackRan = FALSE
    /\ ppc = "rows"
    /\ entriesIn = <<>>
    /\ StreakIdle
    /\ StatsIdle
    /\ RecapIdle
    /\ NoRequests

\* rowSet.each callback on the next row
ParseRow ==
    /\ ppc = "rows"
    /\ rowIdx <= Len(RowSet(html))
    /\ parsed' = RowStep(parsed, RowSet(html)[rowIdx])
    /\ rowIdx' = rowIdx + 1
    /\ UNCHANGED <<html, primaryOut, fallbackRan, ppc>>
    /\ UNCHANGED <<reqs, entriesIn, streakVars, statsVars, recapVars>>

\* the row loop ends
ParseRowsDone ==
    /\ ppc = "rows"
    /\ rowIdx > Len(RowSet(html))
    /\ primaryOut' = parsed
    /\ ppc' = "fallback"
    /\ UNCHANGED <<html, rowIdx, parsed, fallbackRan>>
    /\ UNCHANGED <<reqs, entriesIn, streakVars, statsVars, recapVars>>

\* if (entries.length === 0) { scan every a[href*="/film/"] }
ParseFallback ==
    /\ ppc = "fallback"
    /\ FallbackNeeded(parsed)
    /\ parsed' = FallbackScan(parsed, html)
    /\ fallbackRan' = TRUE
    /\ ppc' = "done"
    /\ UNCHANGED <<html, rowIdx, primaryOut>>
    /\ UNCHANGED <<reqs, entriesIn, streakVars, statsVars, recapVars>>

\* return entries, the fallback skipped
ParseReturn ==
    /\ ppc = "fallback"
    /\ ~FallbackNeeded(parsed)
    /\ ppc' = "done"
    /\ UNCHANGED <<html, rowIdx, parsed, primaryOut, fallbackRan>>
    /\ UNCHANGED <<reqs, entriesIn, streakVars, statsVars, recapVars>>

ParseNext == ParseRow \/ ParseRowsDone \/ ParseFallback \/ ParseReturn

SpecParse == ParseInit /\ [][ParseNext]_vars

-----------------------------------------------------------------------------
(* Specification of one computeLongestStreak call *)

StreakInit ==
    /\ \E n \in 0..MaxDates :
          \E ds \in [1..n -> StreakDates] : entriesIn = [i \in 1..n |-> [date |-> ds[i]]]
    /\ days = <<>>
    /\ dayIdx = 1
    /\ streak = StreakStart
    /\ streakOut = NoResult
    /\ kpc = "sort"
    /\ ParseIdle
    /\ StatsIdle
    /\ RecapIdle
    /\ NoRequests

\* line 247: the distinct dates, sorted; lines 249-255: the locals
StreakSort ==
    /\ kpc = "sort"
    /\ days' = StreakDays(entriesIn)
    /\ kpc' = "loop"
    /\ UNCHANGED <<dayIdx, streak, streakOut>>
    /\ UNCHANGED <<reqs, parseVars, entriesIn, statsVars, recapVars>>

\* one iteration of the loop over days
StreakIterate ==
    /\ kpc = "loop"
    /\ dayIdx <= Len(days)
    /\ streak' = StreakStep(streak, days[dayIdx])
    /\ dayIdx' = dayIdx + 1
    /\ UNCHANGED <<days, streakOut, kpc>>
    /\ UNCHANGED <<reqs, parseVars, entriesIn, statsVars, recapVars>>

\* the loop ends: return { length, start, end }
StreakReturn ==
    /\ kpc = "loop"
    /\ dayIdx > Len(days)
    /\ streakOut' = StreakResult(streak)
    /\ kpc' = "done"
    /\ UNCHANGED <<days, dayIdx, streak>>
    /\ UNCHANGED <<reqs, parseVars, entriesIn, statsVars, recapVars>>

StreakNext == StreakSort \/ StreakIterate \/ StreakReturn

SpecStreak == StreakInit /\ [][StreakNext]_vars

-----------------------------------------------------------------------------
(* Specification of one computeStats call *)

StatsInit ==
    /\ \E cnt \in [1..Len(StatsDates) -> 0..MaxCount], layout \in 1..3 :
          entriesIn = StatsInput(cnt, layout)
    /\ topMonths = <<>>
    /\ activeDays = 0
    /\ topDays = <<>>
    /\ longestStreak = NoResult
    /\ spc = "months"
    /\ ParseIdle
    /\ StreakIdle
    /\ RecapIdle
    /\ NoRequests

\* lines 294-303: byMonth, monthsSorted, topMonths
StatsMonths ==
    /\ spc = "months"
    /\ topMonths' = TopMonths(entriesIn)
    /\ spc' = "active"
    /\ UNCHANGED <<activeDays, topDays, longestStreak>>
    /\ UNCHANGED <<reqs, parseVars, entriesIn, streakVars, recapVars>>

\* lines 306-307: uniqueDays, activeDays
StatsActiveDays ==
    /\ spc = "active"
    /\ activeDays' = ActiveDays(entriesIn)
    /\ spc' = "days"
    /\ UNCHANGED <<topMonths, topDays, longestStreak>>
    /\ UNCHANGED <<reqs, parseVars, entriesIn, streakVars, recapVars>>

\* lines 310-316: byDay, topDays
StatsTopDays ==
    /\ spc = "days"
    /\ topDays' = TopDays(entriesIn)
    /\ spc' = "streak"
    /\ UNCHANGED <<topMonths, activeDays, longestStreak>>
    /\ UNCHANGED <<reqs, parseVars, entriesIn, streakVars, recapVars>>

\* line 319 and the return
StatsStreak ==
    /\ spc = "streak"
    /\ longestStreak' = computeLongestStreak(entriesIn)
    /\ spc' = "done"
    /\ UNCHANGED <<topMonths, activeDays, topDays>>
    /\ UNCHANGED <<reqs, parseVars, entriesIn, streakVars, recapVars>>

StatsNext == StatsMonths \/ StatsActiveDays \/ StatsTopDays \/ StatsStreak

SpecStats == StatsInit /\ [][StatsNext]_vars

-----------------------------------------------------------------------------
(* Specification of one GET /recap request *)

\* The statuses of a page that ends the loop: 404, and others that are not ok.
StopStatuses == {404, 403, 503}

Init ==
    /\ \/ \E u \in BOOLEAN, t \in BOOLEAN, st \in {200, 404, 500} :
            /\ sc = [IdleScenario EXCEPT !.user = u, !.profileThrows = t, !.profileStatus = st]
            /\ ~u \/ t \/ st # 200
       \/ \E n \in 1..(MAX_PAGES + 1), k \in {"status", "nothing", "throw"},
             st \in StopStatuses, p \in 1..Len(Patterns) :
            /\ k # "status" => st = 404
            /\ n = MAX_PAGES + 1 => k = "nothing"
            /\ sc = [user |-> TRUE, profileThrows |-> FALSE, profileStatus |-> 200,
                     stopAt |-> n, stopKind |-> k, stopStatus |-> st, pattern |-> p]
    /\ pc = "start"
    /\ RecapLocalsInit
    /\ entriesIn = <<>>
    /\ ParseIdle
    /\ StreakIdle
    /\ StatsIdle
    /\ NoRequests

Others == <<parseVars, entriesIn, streakVars, statsVars, sc, reqs>>

\* if (!user) return json({ error }, 400)
RecapMissingUser ==
    /\ pc = "start"
    /\ ~sc.user
    /\ response' = 400
    /\ pc' = "done"
    /\ UNCHANGED <<page, pagesFetched, entries, stoppedBecause, debug, fetchLog, diary, stats>>
    /\ UNCHANGED Others

\* const profileFetch = await fetchHtml(profileUrl): the request is sent
RecapFetchProfile ==
    /\ pc = "start"
    /\ sc.user
    /\ fetchLog' = Append(fetchLog, ProfileUrl)
    /\ pc' = "profile"
    /\ UNCHANGED <<page, pagesFetched, entries, stoppedBecause, debug, diary, stats, response>>
    /\ UNCHANGED Others

\* fetch rejects: the handler's promise rejects, no Response is built
ProfileThrows ==
    /\ pc = "profile"
    /\ sc.profileThrows
    /\ pc' = "failed"
    /\ UNCHANGED <<page, pagesFetched, entries, stoppedBecause, debug, fetchLog, diary, stats,
                   response>>
    /\ UNCHANGED Others

\* if (profileFetch.status === 404) return json(..., 404)
ProfileNotFound ==
    /\ pc = "profile"
    /\ ~sc.profileThrows
    /\ sc.profileStatus = 404
    /\ response' = 404
    /\ pc' = "done"
    /\ UNCHANGED <<page, pagesFetched, entries, stoppedBecause, debug, fetchLog, diary, stats>>
    /\ UNCHANGED Others

\* if (!profileFetch.ok) return json(..., 502)
ProfileNotOk ==
    /\ pc = "profile"
    /\ ~sc.profileThrows
    /\ sc.profileStatus # 404
    /\ ~Ok(sc.profileStatus)
    /\ response' = 502
    /\ pc' = "done"
    /\ UNCHANGED <<page, pagesFetched, entries, stoppedBecause, debug, fetchLog, diary, stats>>
    /\ UNCHANGED Others

\* the profile is there: fetchDiaryForYear(user, year) starts (lines 155-169)
ProfileOk ==
    /\ pc = "profile"
    /\ ~sc.profileThrows
    /\ sc.profileStatus # 404
    /\ Ok(sc.profileStatus)
    /\ page' = 1
    /\ pagesFetched' = 0
    /\ entries' = <<>>
    /\ stoppedBecause' = <<"max_pages_reached">>
    /\ debug' = [lastPageUrl |-> PageUrl(1), filmLinksCount |-> 0]
    /\ pc' = "loop"
    /\ UNCHANGED <<fetchLog, diary, stats, response>>
    /\ UNCHANGED Others

\* page <= MAX_PAGES: lastPageUrl = pageUrl; await fetchHtml(pageUrl) is sent
DiaryFetch ==
    /\ pc = "loop"
    /\ LoopContinues(page)
    /\ debug' = [debug EXCEPT !.lastPageUrl = PageUrl(page)]
    /\ fetchLog' = Append(fetchLog, PageUrl(page))
    /\ pc' = "await"
    /\ UNCHANGED <<page, pagesFetched, entries, stoppedBecause, diary, stats, response>>
    /\ UNCHANGED Others

\* page > MAX_PAGES: the loop ends
DiaryLoopEnd ==
    /\ pc = "loop"
    /\ ~LoopContinues(page)
    /\ pc' = "after"
    /\ UNCHANGED <<page, pagesFetched, entries, stoppedBecause, debug, fetchLog, diary, stats,
                   response>>
    /\ UNCHANGED Others

\* fetch rejects: fetchDiaryForYear has no try, the rejection leaves it and the handler
DiaryFetchThrows ==
    /\ pc = "await"
    /\ PageThrows(sc, page)
    /\ pc' = "failed"
    /\ UNCHANGED <<page, pagesFetched, entries, stoppedBecause, debug, fetchLog, diary, stats,
                   response>>
    /\ UNCHANGED Others

\* The response arrives (lines 176-191).
Arrives(resp) ==
    /\ pc = "await"
    /\ ~PageThrows(sc, page)
    /\ resp = PageResponse(sc, page)
    /\ pagesFetched' = pagesFetched + 1
    /\ debug' = [debug EXCEPT !.filmLinksCount = Len(FilmAnchors(resp.html))]

\* status === 404 or !ok: stoppedBecause is set, break
DiaryPageStatus ==
    \E resp \in {PageResponse(sc, page)} :
        /\ Arrives(resp)
        /\ StopsOnStatus(resp)
        /\ stoppedBecause' = StopReasonOfStatus(resp)
        /\ pc' = "after"
        /\ UNCHANGED <<page, entries, fetchLog, diary, stats, response>>
        /\ UNCHANGED Others

\* pageEntries.length === 0: stoppedBecause = "no_entries_on_page", break
DiaryPageEmpty ==
    \E resp \in {PageResponse(sc, page)} :
        /\ Arrives(resp)
        /\ ~StopsOnStatus(resp)
        /\ IsEmptyPage(PageEntries(resp))
        /\ stoppedBecause' = <<"no_entries_on_page">>
        /\ pc' = "after"
        /\ UNCHANGED <<page, entries, fetchLog, diary, stats, response>>
        /\ UNCHANGED Others

\* the page's entries are accumulated; page++
DiaryPageEntries ==
    \E resp \in {PageResponse(sc, page)} :
        /\ Arrives(resp)
        /\ ~StopsOnStatus(resp)
        /\ ~IsEmptyPage(PageEntries(resp))
        /\ entries' = Accumulate(entries, PageEntries(resp))
        /\ page' = page + 1
        /\ pc' = "loop"
        /\ UNCHANGED <<stoppedBecause, fetchLog, diary, stats, response>>
        /\ UNCHANGED Others

\* lines 223-242: the last word on stoppedBecause, and the return
DiaryReturn ==
    /\ pc = "after"
    /\ stoppedBecause' = FinalReason(entries, stoppedBecause)
    /\ diary' = [pagesFetched |-> pagesFetched, entries |-> entries,
                 stoppedBecause |-> FinalReason(entries, stoppedBecause), debug |-> debug]
    /\ pc' = "stats"
    /\ UNCHANGED <<page, pagesFetched, entries, debug, fetchLog, stats, response>>
    /\ UNCHANGED Others

\* const stats = computeStats(diary.entries); return json({...}) with status 200
RecapStats ==
    /\ pc = "stats"
    /\ stats' = computeStats(diary.entries)
    /\ response' = 200
    /\ pc' = "done"
    /\ UNCHANGED <<page, pagesFetched, entries, stoppedBecause, debug, fetchLog, diary>>
    /\ UNCHANGED Others

Next ==
    \/ RecapMissingUser \/ RecapFetchProfile
    \/ ProfileThrows \/ ProfileNotFound \/ ProfileNotOk \/ ProfileOk
    \/ DiaryFetch \/ DiaryLoopEnd \/ DiaryFetchThrows
    \/ DiaryPageStatus \/ DiaryPageEmpty \/ DiaryPageEntries
    \/ DiaryReturn \/ RecapStats

Spec == Init /\ [][Next]_vars

\* The steps of fetchDiaryForYear.
DiaryStep ==
    \/ DiaryFetch \/ DiaryLoopEnd \/ DiaryFetchThrows
    \/ DiaryPageStatus \/ DiaryPageEmpty \/ DiaryPageEntries
    \/ DiaryReturn

\* The same request with progress in fetchDiaryForYear: every page fetch settles,
\* and the event loop then resumes the call, which runs on to its next await or
\* to its return.
SpecLive == Init /\ [][Next]_vars /\ WF_vars(DiaryStep)

-----------------------------------------------------------------------------
(* Specification of two GET /recap requests served by one isolate. Each has  *)
(* passed the profile check and is in its own fetchDiaryForYear call; the    *)
(* calls take turns at `await fetchHtml(pageUrl)`.                           *)

Requests == {1, 2}

Scenario(n, k, st, p) ==
    [user |-> TRUE, profileThrows |-> FALSE, profileStatus |-> 200,
     stopAt |-> n, stopKind |-> k, stopStatus |-> st, pattern |-> p]

\* What the site may answer to either of the two requests.
TwoScenarios ==
    { Scenario(1, "status", 404, 1), Scenario(2, "status", 503, 1),
      Scenario(3, "nothing", 404, 3), Scenario(2, "throw", 404, 4),
      Scenario(MAX_PAGES + 1, "nothing", 404, 1),
      Scenario(MAX_PAGES + 1, "nothing", 404, 2) }

\* One array for both calls, the array of the first.
EntriesShared(rs, i) == rs[1].entries

\* `const entries = []` is a local of the call: every call reads and writes its own.
EntriesOf(rs, i) == rs[i].entries

\* The locals of a fetchDiaryForYear call as it starts (lines 155-169).
CallStart(s) ==
    [sc |-> s, pc |-> "loop", page |-> 1, pagesFetched |-> 0, entries |-> <<>>,
     stoppedBecause |-> <<"max_pages_reached">>,
     debug |-> [lastPageUrl |-> PageUrl(1), filmLinksCount |-> 0],
     diary |-> NoResult, stats |-> NoResult]

TwoInit ==
    /\ \E s1 \in TwoScenarios, s2 \in TwoScenarios :
          reqs = [i \in Requests |-> CallStart(IF i = 1 THEN s1 ELSE s2)]
    /\ entriesIn = <<>>
    /\ ParseIdle
    /\ StreakIdle
    /\ StatsIdle
    /\ RecapIdle

TwoFrame == UNCHANGED <<parseVars, entriesIn, streakVars, statsVars, recapVars>>

\* request i: page <= MAX_PAGES, lastPageUrl = pageUrl, fetchHtml(pageUrl) is sent
TwoFetch(i) ==
    /\ reqs[i].pc = "loop"
    /\ LoopContinues(reqs[i].page)
    /\ reqs' = [reqs EXCEPT ![i].pc = "await",
                            ![i].debug.lastPageUrl = PageUrl(reqs[i].page)]
    /\ TwoFrame

\* request i: page > MAX_PAGES
TwoLoopEnd(i) ==
    /\ reqs[i].pc = "loop"
    /\ ~LoopContinues(reqs[i].page)
    /\ reqs' = [reqs EXCEPT ![i].pc = "after"]
    /\ TwoFrame

\* request i: its fetch rejects
TwoFetchThrows(i) ==
    /\ reqs[i].pc = "await"
    /\ PageThrows(reqs[i].sc, reqs[i].page)
    /\ reqs' = [reqs EXCEPT ![i].pc = "failed"]
    /\ TwoFrame

\* request i: its response arrives and the rest of the loop body runs (lines 176-220)
TwoPage(i) ==
    /\ reqs[i].pc = "await"
    /\ ~PageThrows(reqs[i].sc, reqs[i].page)
    /\ LET resp == PageResponse(reqs[i].sc, reqs[i].page)
           arrived == [reqs[i] EXCEPT !.pagesFetched = @ + 1,
                                      !.debug.filmLinksCount = Len(FilmAnchors(resp.html))]
       IN  IF StopsOnStatus(resp)
           THEN reqs' = [reqs EXCEPT ![i] =
                            [arrived EXCEPT !.stoppedBecause = StopReasonOfStatus(resp),
                                            !.pc = "after"]]
           ELSE IF IsEmptyPage(PageEntries(resp))
           THEN reqs' = [reqs EXCEPT ![i] =
                            [arrived EXCEPT !.stoppedBecause = <<"no_entries_on_page">>,
                                            !.pc = "after"]]
           ELSE reqs' = [reqs EXCEPT ![i] =
                            [arrived EXCEPT
                                !.entries = Accumulate(EntriesOf(reqs, i), PageEntries(resp)),
                                            !.page = @ + 1,
                                            !.pc = "loop"]]
    /\ TwoFrame

\* request i: lines 223-242
TwoReturn(i) ==
    /\ reqs[i].pc = "after"
    /\ LET reason == FinalReason(EntriesOf(reqs, i), reqs[i].stoppedBecause)
       IN  reqs' = [reqs EXCEPT ![i].stoppedBecause = reason,
                                ![i].diary = [pagesFetched |-> reqs[i].pagesFetched,
                                              entries |-> EntriesOf(reqs, i),
                                              stoppedBecause |-> reason,
                                              debug |-> reqs[i].debug],
                                ![i].pc = "stats"]
    /\ TwoFrame

\* request i: const stats = computeStats(diary.entries), and the response
TwoStats(i) ==
    /\ reqs[i].pc = "stats"
    /\ reqs' = [reqs EXCEPT ![i].stats = computeStats(reqs[i].diary.entries),
                            ![i].pc = "done"]
    /\ TwoFrame

TwoNext ==
    \E i \in Requests :
        \/ TwoFetch(i) \/ TwoLoopEnd(i) \/ TwoFetchThrows(i) \/ TwoPage(i)
        \/ TwoReturn(i) \/ TwoStats(i)

SpecTwo == TwoInit /\ [][TwoNext]_vars

-----------------------------------------------------------------------------
(* Properties of fetchDiaryForYear *)

\* The diary page URLs handed to fetchHtml, in order.
DiaryLog == SelectSeq(fetchLog, LAMBDA u : u # ProfileUrl)

PagesUpTo(n) == [i \in 1..n |-> PageUrl(i)]

\* The raw entries of page n.
RawEntries(n) == parseDiaryEntries(PageResponse(sc, n).html)

\* Page n is fetched ok and yields at least one raw entry.
GoodPage(n) == ~PageThrows(sc, n) /\ PageResponse(sc, n).ok /\ Len(RawEntries(n)) >= 1

\* The first page that is not such a page, MAX_PAGES + 1 when all of them are.
FirstOtherPage ==
    LET others == {n \in 1..MAX_PAGES : ~GoodPage(n)}
    IN  IF others = {} THEN MAX_PAGES + 1 ELSE CHOOSE n \in others : \A m \in others : n <= m

\* The raw entries with a date and a filmUrl.
WithBoth(raw) == SelectSeq(raw, LAMBDA e : e.date # null /\ e.filmUrl # null)

\* What pages m..n contribute: their raw entries with both fields, page by page.
RECURSIVE ContributionOf(_, _)
ContributionOf(m, n) ==
    IF m > n THEN <<>>
    ELSE IF m = n THEN WithBoth(RawEntries(n))
    ELSE ContributionOf(m, (m + n) \div 2) \o ContributionOf(((m + n) \div 2) + 1, n)

Contribution(n) == ContributionOf(1, n)

\* fetchDiaryForYear has returned.
Returned == diary # NoResult

\* The loop of fetchDiaryForYear is over.
LoopOver == pc = "after" \/ Returned

\* C1: when page n answers 404 the loop ends with diary_not_found_or_private, and
\* when it answers another status that is not ok, with diary_http_<status>; page n
\* adds no entry, is fetched once, and no later page is fetched.
C1_StatusStopsLoop ==
    LET n == FirstOtherPage
    IN  (LoopOver /\ n <= MAX_PAGES /\ ~PageThrows(sc, n) /\ ~PageResponse(sc, n).ok) =>
            /\ stoppedBecause =
                  IF PageResponse(sc, n).status = 404 THEN <<"diary_not_found_or_private">>
                  ELSE <<"diary_http_", PageResponse(sc, n).status>>
            /\ entries = Contribution(n - 1)
            /\ DiaryLog = PagesUpTo(n)
            /\ pagesFetched = n
            /\ Returned =>
                  /\ diary.stoppedBecause = stoppedBecause
                  /\ diary.entries = entries
                  /\ diary.pagesFetched = n

\* A 503 on a later page whose body holds diary rows, after pages with entries.
C1_Witness ==
    /\ Returned
    /\ diary.stoppedBecause = <<"diary_http_", 503>>
    /\ diary.pagesFetched >= 3
    /\ Len(diary.entries) >= 2
    /\ Len(WithBoth(RawEntries(diary.pagesFetched))) >= 1

\* C2: when page n is fetched ok and yields no raw entry the loop ends with
\* no_entries_on_page, the entries are those of pages 1..n-1, and no later page
\* is fetched.
C2_EmptyPageStopsLoop ==
    LET n == FirstOtherPage
    IN  (LoopOver /\ n <= MAX_PAGES /\ ~PageThrows(sc, n) /\ PageResponse(sc, n).ok
            /\ Len(RawEntries(n)) = 0) =>
            /\ stoppedBecause = <<"no_entries_on_page">>
            /\ entries = Contribution(n - 1)
            /\ DiaryLog = PagesUpTo(n)
            /\ Returned =>
                  /\ diary.stoppedBecause = <<"no_entries_on_page">>
                  /\ diary.entries = Contribution(n - 1)

\* A page without entries in the middle of a diary whose next page has entries.
C2_Witness ==
    /\ Returned
    /\ diary.stoppedBecause = <<"no_entries_on_page">>
    /\ diary.pagesFetched \in 3..(MAX_PAGES - 1)
    /\ Len(diary.entries) >= 2
    /\ Len(RawEntries(diary.pagesFetched)) = 0
    /\ GoodPage(diary.pagesFetched + 1)

\* C3: when pages 1..30 are all fetched ok with at least one raw entry each, the
\* loop ends after 30 fetches, with max_pages_reached if an entry was accumulated
\* and no_entries_collected if none was, and the entries are the raw entries of
\* pages 1..30 that have a date and a filmUrl.
C3_CeilingStopsLoop ==
    (LoopOver /\ FirstOtherPage = MAX_PAGES + 1) =>
        /\ DiaryLog = PagesUpTo(30)
        /\ pagesFetched = 30
        /\ entries = Contribution(30)
        /\ Returned =>
              /\ diary.pagesFetched = 30
              /\ diary.entries = Contribution(30)
              /\ Len(diary.entries) >= 1 => diary.stoppedBecause = <<"max_pages_reached">>
              /\ Len(diary.entries) = 0 => diary.stoppedBecause = <<"no_entries_collected">>

\* Thirty pages with entries, some of them without a date.
C3_Witness ==
    /\ Returned
    /\ diary.pagesFetched = 30
    /\ diary.stoppedBecause = <<"max_pages_reached">>
    /\ \A n \in 1..30 : GoodPage(n)
    /\ \E n \in 1..30 : Len(WithBoth(RawEntries(n))) < Len(RawEntries(n))
    /\ Len(diary.entries) >= 30

\* An entry with a date of 1 to 10 characters and a filmUrl.
Complete(e) ==
    /\ e.date # null /\ Len(e.date) >= 1 /\ Len(e.date) <= 10
    /\ e.filmUrl # null /\ Len(e.filmUrl) >= 1

\* C4: in the loop and in the result every accumulated entry has a date of 1 to
\* 10 characters and a filmUrl; raw entries without one of them are not appended.
C4_EntriesComplete ==
    /\ \A i \in 1..Len(entries) : Complete(entries[i])
    /\ pc = "loop" => entries = Contribution(page - 1)
    /\ Returned => \A i \in 1..Len(diary.entries) : Complete(diary.entries[i])

\* Entries were kept from pages that also held a raw entry without a date, one of
\* them with a date cut from a longer datetime.
C4_Witness ==
    /\ Returned
    /\ Len(diary.entries) >= 2
    /\ \E n \in 1..(page - 1) : Len(WithBoth(RawEntries(n))) < Len(RawEntries(n))
    /\ \E i \in 1..Len(diary.entries) : diary.entries[i].date = Slice(DateTimeAttr, 0, 10)

-----------------------------------------------------------------------------
(* Properties of the order of the fetches and of the end of a request *)

\* C13: the pages are requested in the order 1, 2, 3, ... without a gap or a
\* repeat, at most one request is without its response, and every page before
\* the last one requested was ok and gave at least one raw entry.
C13_PagesInOrder ==
    /\ DiaryLog = PagesUpTo(Len(DiaryLog))
    /\ Len(DiaryLog) - pagesFetched \in {0, 1}
    /\ pc = "loop" => Len(DiaryLog) = pagesFetched
    /\ \A n \in 1..(Len(DiaryLog) - 1) : GoodPage(n)

\* The third page is awaited, after two pages with entries.
C13_Witness ==
    /\ pc = "await"
    /\ Len(DiaryLog) = 3
    /\ pagesFetched = 2
    /\ Len(entries) >= 1

\* C14: when no fetch fails at the transport, a fetchDiaryForYear call that has
\* started eventually returns its result, and it never issues more than 30 fetches.
C14_EventuallyReturns ==
    /\ [](Len(DiaryLog) <= MAX_PAGES)
    /\ (pc = "loop" /\ sc.stopKind # "throw") ~> Returned

\* A call that returned after 30 fetches without an entry to keep.
C14_Witness ==
    /\ Returned
    /\ Len(DiaryLog) = MAX_PAGES
    /\ diary.stoppedBecause = <<"no_entries_collected">>

\* C15: when the fetch of page n fails at the transport, fetchDiaryForYear returns
\* nothing, neither a stop reason nor the entries of pages 1..n-1, and the
\* handler computes no statistics and builds no response.
C15_TransportFailurePropagates ==
    (sc.user /\ sc.stopKind = "throw") =>
        /\ diary = NoResult
        /\ stats = NoResult
        /\ response = 0
        /\ Len(DiaryLog) <= sc.stopAt
        /\ pc \notin {"after", "stats", "done"}
        /\ pc = "failed" =>
              /\ Len(DiaryLog) = sc.stopAt
              /\ pagesFetched = sc.stopAt - 1
              /\ entries = Contribution(sc.stopAt - 1)

\* The fetch of a later page failed after entries had been accumulated.
C15_Witness ==
    /\ pc = "failed"
    /\ sc.stopKind = "throw"
    /\ sc.stopAt >= 3
    /\ Len(entries) >= 2
    /\ diary = NoResult

IsPrefix(a, b) == Len(a) <= Len(b) /\ SubSeq(b, 1, Len(a)) = a

\* C16: every step leaves the accumulated entries where they were and at most
\* appends to them, and the returned sequence is the kept raw entries of the
\* pages before the first page that was not ok or had no raw entry, page by page.
C16_AppendOnly ==
    /\ [][IsPrefix(entries, entries')]_vars
    /\ [](Returned => /\ diary.entries = entries
                      /\ diary.entries = Contribution(FirstOtherPage - 1))

\* A result with the entries of several pages, after the stop-reason override ran.
C16_Witness ==
    /\ Returned
    /\ page >= 4
    /\ Len(diary.entries) >= 4
    /\ diary.entries[1] # diary.entries[2]

\* The five stop reasons.
IsStopReason(r) ==
    \/ r \in { <<"diary_not_found_or_private">>, <<"no_entries_on_page">>,
               <<"no_entries_collected">>, <<"max_pages_reached">> }
    \/ Len(r) = 2 /\ r[1] = "diary_http_" /\ r[2] \in 100..599

\* C17: a returned result has one of the five stop reasons, a pagesFetched that
\* counts every fetch issued and lies in 1..30, and the reasons max_pages_reached
\* and no_entries_collected only after 30 fetches, with and without entries.
C17_ResultConsistent ==
    Returned =>
        /\ IsStopReason(diary.stoppedBecause)
        /\ diary.pagesFetched = Len(DiaryLog)
        /\ diary.pagesFetched >= 1 /\ diary.pagesFetched <= 30
        /\ diary.stoppedBecause = <<"max_pages_reached">> =>
              diary.pagesFetched = 30 /\ Len(diary.entries) >= 1
        /\ diary.stoppedBecause = <<"no_entries_collected">> =>
              diary.pagesFetched = 30 /\ Len(diary.entries) = 0

\* A result that stopped on the first page with nothing collected.
C17_Witness ==
    /\ Returned
    /\ diary.pagesFetched = 1
    /\ Len(diary.entries) = 0
    /\ diary.stoppedBecause = <<"diary_http_", 503>>

\* C18: a diary page is fetched only after the profile fetch answered ok; without
\* a user the answer is 400 and nothing is fetched, a profile 404 is answered 404
\* and another profile status that is not ok 502, without a diary fetch; the
\* statistics are computed after fetchDiaryForYear returned, on its entries.
C18_HandlerOrder ==
    /\ Len(DiaryLog) >= 1 =>
          /\ sc.user /\ ~sc.profileThrows
          /\ sc.profileStatus >= 200 /\ sc.profileStatus <= 299
          /\ fetchLog[1] = ProfileUrl
    /\ ~sc.user => fetchLog = <<>> /\ (pc = "done" => response = 400)
    /\ response = 400 => ~sc.user
    /\ (pc = "done" /\ sc.user /\ sc.profileStatus = 404) => response = 404
    /\ (pc = "done" /\ sc.user /\ sc.profileStatus = 500) => response = 502
    /\ response \in {404, 502} => fetchLog = <<ProfileUrl>>
    /\ stats # NoResult => Returned /\ stats = computeStats(diary.entries)
    /\ Returned => diary.entries = entries

\* A profile that answered 500: the request is answered 502 after one fetch.
C18_Witness ==
    /\ pc = "done"
    /\ response = 502
    /\ sc.profileStatus = 500
    /\ fetchLog = <<ProfileUrl>>

-----------------------------------------------------------------------------
(* Properties of two concurrent requests *)

\* What a fetchDiaryForYear call returns when it is the only one running, stated
\* from the site's answers s: the pages before the first page that is not ok or
\* has no raw entry contribute their entries with both fields.
RawEntriesIn(s, n) == parseDiaryEntries(PageResponse(s, n).html)

GoodPageIn(s, n) ==
    ~PageThrows(s, n) /\ PageResponse(s, n).ok /\ Len(RawEntriesIn(s, n)) >= 1

FirstOtherPageIn(s) ==
    LET others == {n \in 1..MAX_PAGES : ~GoodPageIn(s, n)}
    IN  IF others = {} THEN MAX_PAGES + 1 ELSE CHOOSE n \in others : \A m \in others : n <= m

RECURSIVE ContributionIn(_, _, _)
ContributionIn(s, m, n) ==
    IF m > n THEN <<>>
    ELSE IF m = n THEN WithBoth(RawEntriesIn(s, n))
    ELSE ContributionIn(s, m, (m + n) \div 2) \o ContributionIn(s, ((m + n) \div 2) + 1, n)

AloneFails(s) == FirstOtherPageIn(s) <= MAX_PAGES /\ PageThrows(s, FirstOtherPageIn(s))

AloneResult(s) ==
    LET n == FirstOtherPageIn(s)
        es == ContributionIn(s, 1, n - 1)
    IN  [pagesFetched |-> Min(n, MAX_PAGES),
         entries |-> es,
         stoppedBecause |->
            IF n = MAX_PAGES + 1
            THEN (IF es = <<>> THEN <<"no_entries_collected">> ELSE <<"max_pages_reached">>)
            ELSE IF PageResponse(s, n).status = 404 THEN <<"diary_not_found_or_private">>
            ELSE IF ~PageResponse(s, n).ok THEN <<"diary_http_", PageResponse(s, n).status>>
            ELSE <<"no_entries_on_page">>]

\* pagesFetched, entries and stoppedBecause of a DiaryFetchResult.
Outcome(d) ==
    [pagesFetched |-> d.pagesFetched, entries |-> d.entries,
     stoppedBecause |-> d.stoppedBecause]

\* C12: when the page fetches of two requests interleave, each request's counter
\* and accumulated entries are at every await those of its own pages, and its
\* DiaryFetchResult is the one it would have returned running alone.
C12_RequestsIndependent ==
    \A i \in DOMAIN reqs :
        LET r == reqs[i]
        IN  /\ r.pc \in {"loop", "await"} =>
                  /\ r.pagesFetched = r.page - 1
                  /\ r.entries = ContributionIn(r.sc, 1, r.page - 1)
            /\ r.pc = "failed" => AloneFails(r.sc)
            /\ r.diary # NoResult =>
                  /\ ~AloneFails(r.sc)
                  /\ Outcome(r.diary) = AloneResult(r.sc)

\* Both requests wait for a page at the same time, each having accumulated the
\* entries of another diary.
C12_Witness ==
    /\ DOMAIN reqs = Requests
    /\ reqs[1].pc = "await" /\ reqs[2].pc = "await"
    /\ reqs[1].page >= 3 /\ reqs[2].page >= 3
    /\ reqs[1].sc # reqs[2].sc
    /\ reqs[1].entries # <<>>
    /\ reqs[1].entries # reqs[2].entries

\* A date of the calendar written YYYY-MM-DD, and nothing after it.
IsCalendarDate(d) ==
    /\ Len(d) = 10
    /\ \A k \in 1..10 : IF k \in {5, 8} THEN d[k] = "-" ELSE IsDigit(d[k])
    /\ Num2(d, 6) >= 1 /\ Num2(d, 6) <= 12
    /\ Num2(d, 9) >= 1 /\ Num2(d, 9) <= DaysInMonth(Num4(d, 1), Num2(d, 6))

\* C11: every entry that fetchDiaryForYear returns has a date that is a calendar
\* date YYYY-MM-DD, whatever the rows of the pages carried as a date.
C11_DatesAreCalendarDates ==
    Returned => \A i \in 1..Len(diary.entries) : IsCalendarDate(diary.entries[i].date)

-----------------------------------------------------------------------------
(* Calendar, stated apart from Date.parse: the day after a date *)

DateY(d) == Num4(d, 1)
DateM(d) == Num2(d, 6)
DateD(d) == Num2(d, 9)

\* The day after the calendar date d.
DayAfter(d) ==
    IF DateD(d) < DaysInMonth(DateY(d), DateM(d)) THEN DateStr(DateY(d), DateM(d), DateD(d) + 1)
    ELSE IF DateM(d) < 12 THEN DateStr(DateY(d), DateM(d) + 1, 1)
    ELSE DateStr(DateY(d) + 1, 1, 1)

\* The date n days after d; d itself for n = 0, whatever string d is.
RECURSIVE PlusDays(_, _)
PlusDays(d, n) ==
    IF n = 0 THEN d
    ELSE IF IsIsoDate(d) THEN PlusDays(DayAfter(d), n - 1)
    ELSE null

\* d is before e in the calendar.
Earlier(d, e) ==
    \/ DateY(d) < DateY(e)
    \/ DateY(d) = DateY(e) /\ DateM(d) < DateM(e)
    \/ DateY(d) = DateY(e) /\ DateM(d) = DateM(e) /\ DateD(d) < DateD(e)

DateSet(es) == {es[i].date : i \in 1..Len(es)}

\* The days of S from d on without a gap.
RECURSIVE RunFrom(_, _)
RunFrom(S, d) == IF d \in S THEN 1 + RunFrom(S \ {d}, DayAfter(d)) ELSE 0

\* The first days of the maximal runs of S.
RunStarts(S) == {d \in S : \A p \in S : DayAfter(p) # d}

\* The length of the longest maximal run of S.
LongestRun(S) ==
    LET lens == {RunFrom(S, d) : d \in RunStarts(S)}
    IN  IF S = {} THEN 0 ELSE CHOOSE n \in lens : \A m \in lens : m <= n

\* The first day of the earliest maximal run of S of that length.
EarliestLongest(S) ==
    LET n == LongestRun(S)
        firsts == {d \in RunStarts(S) : RunFrom(S, d) = n}
    IN  CHOOSE d \in firsts : \A e \in firsts : e = d \/ Earlier(d, e)

-----------------------------------------------------------------------------
(* Properties of computeLongestStreak *)

C6_LongestEarliestRun ==
    (kpc = "done" /\ entriesIn # <<>> /\ \A d \in DateSet(entriesIn) : IsIsoDate(d)) =>
        /\ streakOut.length = LongestRun(DateSet(entriesIn))
        /\ streakOut.start = EarliestLongest(DateSet(entriesIn))
        /\ streakOut.end = PlusDays(streakOut.start, streakOut.length - 1)

\* Two runs of two days, the later one over the new year and given first, and
\* the earlier one returned.
C6_Witness ==
    /\ kpc = "done"
    /\ \A d \in DateSet(entriesIn) : IsIsoDate(d)
    /\ Len(entriesIn) = 4
    /\ entriesIn[1].date = DateStr(2025, 1, 1)
    /\ entriesIn[2].date = DateStr(2024, 12, 31)
    /\ Cardinality(RunStarts(DateSet(entriesIn))) = 2
    /\ streakOut = [length |-> 2, start |-> DateStr(2024, 2, 28), end |-> DateStr(2024, 2, 29)]

-----------------------------------------------------------------------------
(* Properties of computeStats *)

\* The number of entries of es whose key is k.
Occurrences(keys, k) == Cardinality({i \in 1..Len(keys) : keys[i] = k})

MonthKeys(es) == [i \in 1..Len(es) |-> Slice(es[i].date, 0, 7)]

\* top is a top-5 list of the keys: at most 5 elements, no count smaller than the
\* next one, each key once with its number of occurrences, no key left out with
\* more occurrences than one that is in.
IsTopList(top, keys) ==
    /\ Len(top) <= 5
    /\ \A i \in 1..(Len(top) - 1) : top[i].count >= top[i + 1].count
    /\ \A i, j \in 1..Len(top) : i # j => top[i].key # top[j].key
    /\ \A i \in 1..Len(top) : top[i].count >= 1 /\ top[i].count = Occurrences(keys, top[i].key)
    /\ \A k \in {keys[i] : i \in 1..Len(keys)} :
          (\A i \in 1..Len(top) : top[i].key # k) =>
              \A i \in 1..Len(top) : Occurrences(keys, k) <= top[i].count

MonthsKeyed == [i \in 1..Len(topMonths) |-> [key |-> topMonths[i].month, count |-> topMonths[i].count]]

DaysKeyed == [i \in 1..Len(topDays) |-> [key |-> topDays[i].date, count |-> topDays[i].count]]

\* C7: topMonths and topDays have at most 5 elements, are ordered by count
\* without an increase, hold each key once with its number of occurrences
\* (months are the first 7 characters of the date), and leave out no key with
\* more occurrences than one they hold.
C7_TopLists ==
    spc = "done" =>
        /\ IsTopList(MonthsKeyed, MonthKeys(entriesIn))
        /\ IsTopList(DaysKeyed, DatesOf(entriesIn))

\* More than five days and months, with different counts, some left out.
C7_Witness ==
    /\ spc = "done"
    /\ Cardinality(DateSet(entriesIn)) = 7
    /\ Len(topMonths) = 5 /\ Len(topDays) = 5
    /\ topMonths[1].count = 4 /\ topMonths[5].count = 1
    /\ topDays[1].count = 2 /\ topDays[5].count = 1
    /\ topDays[1].date # entriesIn[1].date

\* C8: activeDays is the number of distinct date strings of the entries, and one
\* more entry on a date already present leaves it as it is.
C8_ActiveDays ==
    spc = "done" =>
        /\ activeDays = Cardinality(DateSet(entriesIn))
        /\ \A d \in DateSet(entriesIn) :
              ActiveDays(Append(entriesIn, DiaryEntry(d))) = activeDays

\* Several days, some of them with two entries.
C8_Witness ==
    /\ spc = "done"
    /\ activeDays = 3
    /\ Len(entriesIn) = 5

\* C19: the longest streak is no longer than the number of active days, which is
\* no greater than the number of entries; the streak has length 0 exactly for the
\* empty list, for which there are no active days and both top lists are empty.
C19_StatsBounds ==
    spc = "done" =>
        /\ longestStreak.length <= activeDays
        /\ activeDays <= Len(entriesIn)
        /\ longestStreak.length = 0 <=> entriesIn = <<>>
        /\ entriesIn = <<>> => activeDays = 0 /\ topMonths = <<>> /\ topDays = <<>>

\* Two consecutive days of one month, one of them with two entries.
C19_Witness ==
    /\ spc = "done"
    /\ longestStreak.length = 2
    /\ activeDays = 2
    /\ Len(entriesIn) = 3
    /\ Len(topMonths) = 1

-----------------------------------------------------------------------------
(* Properties of parseDiaryEntries *)

\* C9: the scan of the film links runs only when the rows gave no entry at all;
\* when the rows gave one or more entries, with or without a date, the result is
\* the entries of the rows and nothing else.
C9_FallbackOnlyOnTotalFailure ==
    /\ fallbackRan => Len(primaryOut) = 0
    /\ (ppc = "done" /\ Len(primaryOut) >= 1) =>
          /\ ~fallbackRan
          /\ parsed = primaryOut
          /\ parsed = RowsFold(<<>>, RowSet(html))

\* A page on which one row gave an entry without a date and another row gave
\* none, although the page holds more film links than the rows gave entries.
C9_Witness ==
    /\ ppc = "done"
    /\ Len(primaryOut) = 1
    /\ primaryOut[1].date = null
    /\ Len(RowSet(html)) = 2
    /\ Len(FilmAnchors(html)) >= 2

\* A URL with the scheme http or https.
IsAbsoluteUrl(u) ==
    \/ StartsWith(u, HTTP \o <<":", "/", "/">>)
    \/ StartsWith(u, HTTP \o <<"s", ":", "/", "/">>)

\* The rows that give an entry: those with a non-blank href.
EntryRows(doc) == SelectSeq(RowSet(doc), LAMBDA r : textOrNull(r.nameHref) # null)

\* C10: every entry of the row strategy has an absolute filmUrl: the href itself
\* when that is absolute, the site origin followed by the href when it is not.
C10_FilmUrlAbsolute ==
    (ppc \in {"fallback", "done"} /\ ~fallbackRan) =>
        /\ Len(parsed) = Len(EntryRows(html))
        /\ \A i \in 1..Len(parsed) :
              LET href == Trim(EntryRows(html)[i].nameHref)
              IN  /\ IsAbsoluteUrl(parsed[i].filmUrl)
                  /\ parsed[i].filmUrl = IF IsAbsoluteUrl(href) THEN href ELSE ORIGIN \o href

====
